---- MODULE Spec2Model ----
(***************************************************************************)
(* Model of lap_tracker/lap_tracking.py (class LAPTracker).                *)
(*                                                                         *)
(* The detection table self.track is a pandas DataFrame indexed by         *)
(* (t, label).  It is modelled as a sequence of rows [t, label, x] in row  *)
(* order; the scratch column self.track['new_label'] is the parallel       *)
(* sequence new_label (empty while the column does not exist).  Positions  *)
(* are reduced to one integer coordinate x: the coordinates are only read  *)
(* by the cost-matrix builder, which is not part of lap_tracking.py.       *)
(*                                                                         *)
(* The chained assignments of position_track                               *)
(*     self.track.loc[t1]['new_label'].iloc[n] = new_label                 *)
(*     self.track.xs(t1)['new_label'].iloc[n] = new_label                  *)
(* are modelled as writes into the table (the frame slice of a table whose *)
(* index is sorted by time is a view of the table).                        *)
(*                                                                         *)
(* The tables handed to close_merge_split also carry the intensity column  *)
(* I.  arg records the calls made: the (t0, t1) pairs position_track was   *)
(* run on by get_track (with the positions predict_positions returned,     *)
(* when self.predict is set), min_length for remove_shorts, the solver     *)
(* result for close_merge_split.                                           *)
(*                                                                         *)
(* predict is the attribute self.predict: "unset" on a tracker built from  *)
(* params that do not give it (DEFAULTS does not), else "false" or "true". *)
(***************************************************************************)
EXTENDS Integers, Sequences, FiniteSets, TLC

VARIABLES track, new_label, pc, step, choices, births, prev, orig, arg, predict

vars == <<track, new_label, pc, step, choices, births, prev, orig, arg, predict>>

-----------------------------------------------------------------------------
(* Bounds of the model *)

(* rows of a table *)
MaxRows == 3

(* detections per frame of a two-frame table *)
MaxDet == 2

(* the raw labels a detection may carry *)
RawLabels == {0, 1}

(* the coordinates a detection may have *)
Positions == {0, 2}

(* the time steps from one row to the next: 0 within a frame, 1 to the next
   time, 2 over a time without detections *)
TimeGaps == {0, 1, 2}

(* Configuration (DEFAULTS), in model units *)
max_disp == 1

window_gap == 1

-----------------------------------------------------------------------------
(* Generic helpers *)

Range(s) == {s[k] : k \in 1..Len(s)}

Abs(a) == IF a < 0 THEN -a ELSE a

SetMax(S) == CHOOSE m \in S : \A y \in S : y <= m

(* Series.max() of a column *)
ColMax(col) == SetMax(Range(col))

(* positions (1-based row numbers) of the rows satisfying a time test, in row order *)
RECURSIVE RowsFrom(_, _, _)
RowsFrom(tr, t, k) ==
    IF k > Len(tr) THEN <<>>
    ELSE IF tr[k].t = t THEN <<k>> \o RowsFrom(tr, t, k + 1)
    ELSE RowsFrom(tr, t, k + 1)

(* self.track.loc[t] / self.track.xs(t): the rows of time t, in row order *)
RowsAt(tr, t) == RowsFrom(tr, t, 1)

(* Index.unique(): the distinct values of a sequence in order of first appearance *)
RECURSIVE UniqueFrom(_, _, _)
UniqueFrom(s, k, seen) ==
    IF k > Len(s) THEN <<>>
    ELSE IF s[k] \in seen THEN UniqueFrom(s, k + 1, seen)
    ELSE <<s[k]>> \o UniqueFrom(s, k + 1, seen \cup {s[k]})

Unique(s) == UniqueFrom(s, 1, {})

(* self.times: unique values of index level 0 *)
times(tr) == Unique([k \in 1..Len(tr) |-> tr[k].t])

(* self.labels: unique values of index level 1 *)
labels(tr) == Unique([k \in 1..Len(tr) |-> tr[k].label])

-----------------------------------------------------------------------------
(* Input tables: time-ordered rows, labels unique within each time *)

RECURSIVE TimeOf(_, _, _)
TimeOf(t0, g, k) == IF k = 1 THEN t0 ELSE TimeOf(t0, g, k - 1) + g[k]

UniqueTimeLabel(tr) ==
    \A a, b \in 1..Len(tr) :
        (a # b /\ tr[a].t = tr[b].t) => tr[a].label # tr[b].label

TablesOfLen(n, t0) ==
    { tb \in { [k \in 1..n |-> [t |-> TimeOf(t0, g, k), label |-> l[k], x |-> p[k]]] :
                 g \in [2..n -> TimeGaps],
                 l \in [1..n -> RawLabels],
                 p \in [1..n -> Positions] } :
        UniqueTimeLabel(tb) }

Tables(t0) == UNION { TablesOfLen(n, t0) : n \in 1..MaxRows }

(* the coordinates of the detections of a two-frame table *)
TwoFramePositions == {0, 1, 2}

(* the values of 2n rows, the first n and the last n of them pairwise different *)
FramewiseDistinct(n, S) ==
    { f \in [1..(2 * n) -> S] :
        \A a, b \in 1..(2 * n) : (a # b /\ (a <= n <=> b <= n)) => f[a] # f[b] }

(* two frames (times 0 and dt) of n detections each, labelled 0..n-1 in any order,
   the detections of a frame at different places *)
TwoFrameTablesOf(n, dt) ==
    { [k \in 1..(2 * n) |-> [t |-> IF k <= n THEN 0 ELSE dt, label |-> l[k], x |-> p[k]]] :
        l \in FramewiseDistinct(n, 0..(n - 1)),
        p \in FramewiseDistinct(n, TwoFramePositions) }

TwoFrameTables(N) ==
    UNION { TwoFrameTablesOf(n, dt) : n \in 1..N, dt \in TimeGaps \ {0} }

-----------------------------------------------------------------------------
(* Cost matrix builder and assignment solver (lap_cost_matrix.get_lapmat,   *)
(* get_lap_args and lapjv.lapjv are imported, not defined, by              *)
(* lap_tracking.py)                                                        *)

(* an entry of the cost matrix is finite iff the distance is within the gate *)
Admissible(x0, x1, gate) == Abs(x1 - x0) <= gate

(* cost of a finite entry: dist_function applied to the displacement *)
dist_function(d) == d * d

(* cost of the birth and death alternatives: above every finite entry *)
AltCost(gate) == dist_function(gate) + 1

(* out_links[:n1] of a solution: for the n-th detection of t1 (n = 1..n1) the
   0-based index of the t0 detection it is linked to, or the index n0 + n - 1
   of its birth alternative; no t0 detection is used twice *)
OutLinks(tr, I0, I1, gate) ==
    LET n0 == Len(I0)
        n1 == Len(I1)
    IN { o \in [1..n1 -> 0..(n0 + n1 - 1)] :
           /\ \A n \in 1..n1 :
                IF o[n] < n0 THEN Admissible(tr[I0[o[n] + 1]].x, tr[I1[n]].x, gate)
                ELSE o[n] = n0 + n - 1
           /\ \A a, b \in 1..n1 : (a # b /\ o[a] < n0) => o[a] # o[b] }

RECURSIVE LinkCostFrom(_, _, _, _, _)
LinkCostFrom(tr, I0, I1, o, n) ==
    IF n > Len(I1) THEN 0
    ELSE (IF o[n] < Len(I0)
          THEN dist_function(Abs(tr[I1[n]].x - tr[I0[o[n] + 1]].x))
          ELSE 0) + LinkCostFrom(tr, I0, I1, o, n + 1)

(* total cost of a solution: its links, plus one alternative per birth and per death *)
Cost(tr, I0, I1, gate, o) ==
    LET linked == Cardinality({n \in 1..Len(I1) : o[n] < Len(I0)})
    IN LinkCostFrom(tr, I0, I1, o, 1)
       + AltCost(gate) * ((Len(I1) - linked) + (Len(I0) - linked))

(* the solutions lapjv may return when it is optimal *)
IsOptimal(tr, I0, I1, gate, o) ==
    \A q \in OutLinks(tr, I0, I1, gate) :
        Cost(tr, I0, I1, gate, o) <= Cost(tr, I0, I1, gate, q)

(* lapjv raised AssertionError *)
Infeasible == <<-1>>

-----------------------------------------------------------------------------
(* position_track *)

(* line 88: self.track['new_label'] = self.track.index.get_level_values(1) *)
RECURSIVE LabelsFrom(_, _)
LabelsFrom(tr, k) ==
    IF k > Len(tr) THEN <<>> ELSE <<tr[k].label>> \o LabelsFrom(tr, k + 1)

LabelColumn(tr) == LabelsFrom(tr, 1)

(* line 175: the gate handed to get_lapmat *)
BadGate(t0, t1) == max_disp * t1

Gate(t0, t1) == max_disp * (t1 - t0)

(* lines 184 and 190: self.track['new_label'].max() + 1 *)
StaleNewLabel(col) == ColMax(col)

LastNewLabel(col) == col[Len(col)] + 1

NewLabel(col) == ColMax(col) + 1

(* line 188: idx_in >= pos0.shape[0] *)
IsBirth(idx_in, n0) == idx_in >= n0

(* line 192: self.track.loc[t0]['new_label'].iloc[idx_in] *)
ShiftedLinkedLabel(col, I0, idx_in) == col[I0[((idx_in + 1) % Len(I0)) + 1]]

LinkedLabel(col, I0, idx_in) == col[I0[idx_in + 1]]

(* line 193 (and 185): write new into row r of the working column; a birth is logged
   with the column it was allocated from; st = [col, log] *)
WriteRowBelow(st, r, new, birth, s) ==
    [col |-> [st.col EXCEPT ![(r % Len(st.col)) + 1] = new],
     log |-> IF birth
             THEN Append(st.log, [step |-> s, row |-> r, label |-> new, col |-> st.col])
             ELSE st.log]

Write(st, r, new, birth, s) ==
    [col |-> [st.col EXCEPT ![r] = new],
     log |-> IF birth
             THEN Append(st.log, [step |-> s, row |-> r, label |-> new, col |-> st.col])
             ELSE st.log]

(* line 192: the labels a link is read from: the 'new_label' column of the frame,
   that is the labels the earlier steps committed, not index level 'label' *)
IndexLabels(tr, col) == LabelColumn(tr)

LinkSource(tr, col) == col

(* lines 188-192: the label of the t1 detection whose solver partner is idx_in *)
ResolvedLabel(tr, col, I0, idx_in) ==
    IF IsBirth(idx_in, Len(I0)) THEN NewLabel(col)
    ELSE LinkedLabel(LinkSource(tr, col), I0, idx_in)

(* lines 187-193: the loop over out_links[:pos1.shape[0]] *)
RECURSIVE LinkLoop(_, _, _, _, _, _, _)
LinkLoop(tr, st, I0, I1, o, n, s) ==
    IF n > Len(I1) THEN st
    ELSE LinkLoop(tr,
                  Write(st, I1[n], ResolvedLabel(tr, st.col, I0, o[n]),
                        IsBirth(o[n], Len(I0)), s),
                  I0, I1, o, n + 1, s)

(* line 183: range(pos1.shape[0]), the rows the fallback relabels *)
FirstRowOnly(I1) == <<I1[1]>>

FallbackRows(I1) == I1

(* lines 183-185: the loop of the AssertionError handler *)
RECURSIVE FallbackLoop(_, _, _, _)
FallbackLoop(st, R, n, s) ==
    IF n > Len(R) THEN st
    ELSE FallbackLoop(Write(st, R[n], NewLabel(st.col), TRUE, s), R, n + 1, s)

(* position_track(t0, t1) on the solver outcome o (s is the number of the step) *)
position_track(tr, st, t0, t1, o, s) ==
    LET I0 == RowsAt(tr, t0)
        I1 == RowsAt(tr, t1)
    IN IF o = Infeasible THEN FallbackLoop(st, FallbackRows(I1), 1, s)
       ELSE LinkLoop(tr, st, I0, I1, o, 1, s)

(* the outcomes lapjv may have on the pair (t0, t1) *)
Outcomes(tr, t0, t1) ==
    OutLinks(tr, RowsAt(tr, t0), RowsAt(tr, t1), Gate(t0, t1))

-----------------------------------------------------------------------------
(* get_track *)

(* lines 100-102: new_label becomes index level 'label', the old level is dropped *)
Relabel(tr, col) == [k \in 1..Len(tr) |-> [tr[k] EXCEPT !.label = col[k]]]

(* lines 88-102 as one run, on the solver outcomes cs (one per time pair) *)
RECURSIVE RunSteps(_, _, _, _)
RunSteps(tr, st, cs, s) ==
    IF s > Len(times(tr)) - 1 THEN st
    ELSE RunSteps(tr,
                  position_track(tr, st, times(tr)[s], times(tr)[s + 1], cs[s], s),
                  cs, s + 1)

get_track(tr, cs) ==
    LET st == RunSteps(tr, [col |-> LabelColumn(tr), log |-> <<>>], cs, 1)
    IN [track |-> Relabel(tr, st.col), log |-> st.log]

NumSteps == Len(times(track)) - 1

(* lines 80-84: get_track sets every keyword argument as an attribute; kw is the
   keyword predict of the call, "none" when the call does not give it *)
SetPredict(attr, kw) == IF kw = "none" THEN attr ELSE kw

(* lines 80-91 of a call get_track(predict=kw), with self.predict defined by then *)
GetTrackCall(kws) ==
    /\ pc = "start"
    /\ \E kw \in kws :
         /\ SetPredict(predict, kw) # "unset"
         /\ predict' = SetPredict(predict, kw)
    /\ new_label' = LabelColumn(track)
    /\ step' = 1
    /\ births' = <<>>
    /\ choices' = <<>>
    /\ prev' = [track |-> track, new_label |-> new_label]
    /\ pc' = "linking"
    /\ arg' = <<>>
    /\ UNCHANGED <<track, orig>>

(* get_track() and get_track(predict=False) *)
GetTrackBegin == GetTrackCall({"none", "false"})

(* line 86: str(self.predict) on a tracker that was given predict neither in its
   params (DEFAULTS has no such key) nor in the call: AttributeError, before
   line 88 has created the new_label column *)
GetTrackNoPredict ==
    /\ pc = "start"
    /\ predict = "unset"
    /\ pc' = "attribute_error"
    /\ prev' = [track |-> track, new_label |-> new_label]
    /\ UNCHANGED <<track, new_label, step, choices, births, orig, arg, predict>>

PositionTrackLinked ==
    /\ pc = "linking"
    /\ predict = "false"
    /\ step <= NumSteps
    /\ \E o \in Outcomes(track, times(track)[step], times(track)[step + 1]) :
         LET st == position_track(track, [col |-> new_label, log |-> births],
                                  times(track)[step], times(track)[step + 1], o, step)
         IN /\ new_label' = st.col
            /\ births' = st.log
            /\ choices' = Append(choices, o)
    /\ prev' = [track |-> track, new_label |-> new_label]
    /\ step' = step + 1
    /\ arg' = Append(arg, [t0 |-> times(track)[step], t1 |-> times(track)[step + 1]])
    /\ UNCHANGED <<track, pc, orig, predict>>

PositionTrackInfeasible ==
    /\ pc = "linking"
    /\ predict = "false"
    /\ step <= NumSteps
    /\ LET st == position_track(track, [col |-> new_label, log |-> births],
                                times(track)[step], times(track)[step + 1],
                                Infeasible, step)
       IN /\ new_label' = st.col
          /\ births' = st.log
          /\ choices' = Append(choices, Infeasible)
    /\ prev' = [track |-> track, new_label |-> new_label]
    /\ step' = step + 1
    /\ arg' = Append(arg, [t0 |-> times(track)[step], t1 |-> times(track)[step + 1]])
    /\ UNCHANGED <<track, pc, orig, predict>>

GetTrackCommit ==
    /\ pc = "linking"
    /\ step = NumSteps + 1
    /\ track' = Relabel(track, new_label)
    /\ new_label' = <<>>
    /\ prev' = [track |-> track, new_label |-> new_label]
    /\ pc' = "linked"
    /\ UNCHANGED <<step, choices, births, orig, arg, predict>>

(* a second get_track on the linked table, the solver returning what it returned before *)
GetTrackAgain ==
    /\ pc = "linked"
    /\ LET r == get_track(track, choices)
       IN /\ track' = r.track
          /\ births' = r.log
    /\ prev' = [track |-> track, new_label |-> new_label]
    /\ pc' = "relinked"
    /\ UNCHANGED <<new_label, step, choices, orig, arg, predict>>

Init ==
    /\ track \in Tables(0)
    /\ new_label = <<>>
    /\ pc = "start"
    /\ step = 0
    /\ choices = <<>>
    /\ births = <<>>
    /\ prev = [track |-> <<>>, new_label |-> <<>>]
    /\ orig = track
    /\ arg = 0
    /\ predict \in {"unset", "false"}

Next ==
    \/ GetTrackBegin
    \/ GetTrackNoPredict
    \/ PositionTrackLinked
    \/ PositionTrackInfeasible
    \/ GetTrackCommit
    \/ GetTrackAgain

Spec == Init /\ [][Next]_vars

(* get_track on two-frame tables *)
InitTwoFrame ==
    /\ track \in TwoFrameTables(MaxDet)
    /\ new_label = <<>>
    /\ pc = "start"
    /\ step = 0
    /\ choices = <<>>
    /\ births = <<>>
    /\ prev = [track |-> <<>>, new_label |-> <<>>]
    /\ orig = track
    /\ arg = 0
    /\ predict \in {"unset", "false"}

SpecTwoFrame == InitTwoFrame /\ [][Next]_vars

-----------------------------------------------------------------------------
(* Segment utilities *)

RECURSIVE SelectLabel(_, _, _)
SelectLabel(tr, lbl, k) ==
    IF k > Len(tr) THEN <<>>
    ELSE IF tr[k].label = lbl THEN <<tr[k]>> \o SelectLabel(tr, lbl, k + 1)
    ELSE SelectLabel(tr, lbl, k + 1)

(* get_segment: self.track.xs(lbl, level=1), the rows of label lbl in row order *)
get_segment(tr, lbl) == SelectLabel(tr, lbl, 1)

(* segments: one segment per label, in the order of self.labels *)
RECURSIVE SegmentsFrom(_, _, _)
SegmentsFrom(tr, lbls, n) ==
    IF n > Len(lbls) THEN <<>>
    ELSE <<get_segment(tr, lbls[n])>> \o SegmentsFrom(tr, lbls, n + 1)

segments(tr) == SegmentsFrom(tr, labels(tr), 1)

RECURSIVE DropLabel(_, _, _)
DropLabel(tr, lbl, k) ==
    IF k > Len(tr) THEN <<>>
    ELSE IF tr[k].label = lbl THEN DropLabel(tr, lbl, k + 1)
    ELSE <<tr[k]>> \o DropLabel(tr, lbl, k + 1)

(* line 234: self.track.drop([lbl,], level=1) *)
drop(tr, lbl) == DropLabel(tr, lbl, 1)

(* line 233: segment.shape[0] < min_length *)
ShortOrEqual(seg, min_length) == Len(seg) <= min_length

IsShort(seg, min_length) == Len(seg) < min_length

(* lines 231-234: the loop over the labels found at line 230 *)
RECURSIVE ShortsLoop(_, _, _, _)
ShortsLoop(tr, lbls, min_length, n) ==
    IF n > Len(lbls) THEN tr
    ELSE ShortsLoop(IF IsShort(get_segment(tr, lbls[n]), min_length)
                    THEN drop(tr, lbls[n]) ELSE tr,
                    lbls, min_length, n + 1)

remove_shorts(tr, min_length) == ShortsLoop(tr, labels(tr), min_length, 1)

RemoveShorts ==
    /\ pc = "start"
    /\ \E min_length \in 0..(Len(track) + 1) :
         /\ track' = remove_shorts(track, min_length)
         /\ arg' = min_length
    /\ prev' = [track |-> track, new_label |-> new_label]
    /\ pc' = "shortened"
    /\ UNCHANGED <<new_label, step, choices, births, orig, predict>>

SpecShorts == Init /\ [][RemoveShorts]_vars

(* lines 111-119: the time of every row becomes (time of the last row) - time, and
   the row order is reversed *)
RECURSIVE ReverseFrom(_, _)
ReverseFrom(tr, k) ==
    IF k < 1 THEN <<>>
    ELSE <<[tr[k] EXCEPT !.t = tr[Len(tr)].t - tr[k].t]>> \o ReverseFrom(tr, k - 1)

reverse_track(tr) == ReverseFrom(tr, Len(tr))

(* applications of reverse_track in a row *)
MaxReverse == 2

ReverseTrack ==
    /\ pc \in {"start", "reversed"}
    /\ arg < MaxReverse
    /\ track' = reverse_track(track)
    /\ arg' = arg + 1
    /\ prev' = [track |-> track, new_label |-> new_label]
    /\ pc' = "reversed"
    /\ UNCHANGED <<new_label, step, choices, births, orig, predict>>

(* tables whose smallest time is 0 or 1 *)
InitReverse ==
    /\ track \in Tables(0) \cup Tables(1)
    /\ new_label = <<>>
    /\ pc = "start"
    /\ step = 0
    /\ choices = <<>>
    /\ births = <<>>
    /\ prev = [track |-> <<>>, new_label |-> <<>>]
    /\ orig = track
    /\ arg = 0
    /\ predict = "unset"

SpecReverse == InitReverse /\ [][ReverseTrack]_vars

-----------------------------------------------------------------------------
(* close_merge_split *)

(* the labels a row of a table handed to close_merge_split may carry *)
SegLabels == {0, 1, 2}

(* the 'I' column of a table of n rows: the same intensity everywhere, or one
   intensity per row *)
IntensityColumns(n) == { [k \in 1..n |-> 1], [k \in 1..n |-> k] }

CmsTablesOfLen(n, t0) ==
    { tb \in { [k \in 1..n |-> [t |-> TimeOf(t0, g, k), label |-> l[k], x |-> p[k],
                                I |-> i[k]]] :
                 g \in [2..n -> TimeGaps],
                 l \in [1..n -> SegLabels],
                 p \in [1..n -> Positions],
                 i \in IntensityColumns(n) } :
        UniqueTimeLabel(tb) }

CmsTables(t0) == UNION { CmsTablesOfLen(n, t0) : n \in 1..MaxRows }

(* get_cmt_mat(..., gap_close_only=True): the end of segment a can be closed to the
   start of segment b iff b starts after a ends, at most window_gap later, and
   within max_disp of where a ends (lap_cost_matrix is imported, not defined, by
   lap_tracking.py) *)
CanClose(a, b) ==
    /\ b[1].t - a[Len(a)].t >= 1
    /\ b[1].t - a[Len(a)].t <= window_gap
    /\ Abs(b[1].x - a[Len(a)].x) <= max_disp

(* out_links[:num_seqs] of a solution: for the n-th segment (n = 1..num_seqs) the
   0-based index of the segment whose end is linked to its start, or the index
   num_seqs + n - 1 of its birth alternative; no segment end is used twice *)
CmsOutLinks(segs) ==
    LET num_seqs == Len(segs)
    IN { o \in [1..num_seqs -> 0..(2 * num_seqs - 1)] :
           /\ \A n \in 1..num_seqs :
                IF o[n] < num_seqs THEN CanClose(segs[o[n] + 1], segs[n])
                ELSE o[n] = num_seqs + n - 1
           /\ \A a, b \in 1..num_seqs : (a # b /\ o[a] < num_seqs) => o[a] # o[b] }

SetMin(S) == CHOOSE m \in S : \A y \in S : m <= y

(* np.unique: the distinct values in ascending order *)
RECURSIVE Ascending(_)
Ascending(S) ==
    IF S = {} THEN <<>> ELSE <<SetMin(S)>> \o Ascending(S \ {SetMin(S)})

np_unique(col) == Ascending(Range(col))

(* line 149-153: the new label of the segment whose solver partner is idx_in *)
MappedLabel(unique_new, idx_in, num_seqs) ==
    IF idx_in >= num_seqs THEN ColMax(unique_new) + 1 ELSE unique_new[idx_in + 1]

(* lines 148-154: the loop over out_links[:num_seqs], rewriting unique_new in place *)
RECURSIVE MapLoop(_, _, _, _)
MapLoop(unique_new, o, num_seqs, n) ==
    IF n > num_seqs THEN unique_new
    ELSE MapLoop([unique_new EXCEPT ![n] = MappedLabel(unique_new, o[n], num_seqs)],
                 o, num_seqs, n + 1)

(* the position of a label in unique_old *)
RankOf(unique_old, lbl) == CHOOSE n \in 1..Len(unique_old) : unique_old[n] = lbl

(* the rows of tr regrouped segment by segment, each segment under the label
   unique_new gives it *)
RECURSIVE RelabelSegment(_, _, _, _, _)
RelabelSegment(tr, unique_old, unique_new, n, k) ==
    IF k > Len(tr) THEN <<>>
    ELSE IF tr[k].label = unique_old[n]
         THEN <<[tr[k] EXCEPT !.label = unique_new[n]]>>
              \o RelabelSegment(tr, unique_old, unique_new, n, k + 1)
         ELSE RelabelSegment(tr, unique_old, unique_new, n, k + 1)

RECURSIVE ConcatSegments(_, _, _, _)
ConcatSegments(tr, unique_old, unique_new, n) ==
    IF n > Len(unique_old) THEN <<>>
    ELSE RelabelSegment(tr, unique_old, unique_new, n, 1)
         \o ConcatSegments(tr, unique_old, unique_new, n + 1)

(* lines 155-156: every row of label unique_old[n] is given unique_new[n] *)
RECURSIVE ApplyMap(_, _, _, _)
ApplyMap(tr, unique_old, unique_new, k) ==
    IF k > Len(tr) THEN <<>>
    ELSE <<[tr[k] EXCEPT !.label = unique_new[RankOf(unique_old, tr[k].label)]]>>
         \o ApplyMap(tr, unique_old, unique_new, k + 1)

(* lines 142-161, on the solver outcome o *)
close_merge_split(tr, o) ==
    ApplyMap(tr, np_unique(LabelColumn(tr)),
             MapLoop(np_unique(LabelColumn(tr)), o, Len(segments(tr)), 1), 1)

CloseMergeSplit ==
    /\ pc = "start"
    /\ \E o \in CmsOutLinks(segments(track)) :
         /\ track' = close_merge_split(track, o)
         /\ arg' = o
    /\ prev' = [track |-> track, new_label |-> new_label]
    /\ pc' = "closed"
    /\ UNCHANGED <<new_label, step, choices, births, orig, predict>>

(* lines 139-140: the solver raises on the cost matrix; close_merge_split does not
   catch it, and nothing has been written to the table by then *)
CloseMergeSplitFails ==
    /\ pc = "start"
    /\ pc' = "failed"
    /\ arg' = Infeasible
    /\ prev' = [track |-> track, new_label |-> new_label]
    /\ UNCHANGED <<track, new_label, step, choices, births, orig, predict>>

InitCms ==
    /\ track \in CmsTables(0)
    /\ new_label = <<>>
    /\ pc = "start"
    /\ step = 0
    /\ choices = <<>>
    /\ births = <<>>
    /\ prev = [track |-> <<>>, new_label |-> <<>>]
    /\ orig = track
    /\ arg = 0
    /\ predict = "unset"

NextCms == CloseMergeSplit \/ CloseMergeSplitFails

SpecCms == InitCms /\ [][NextCms]_vars

-----------------------------------------------------------------------------
(* predict_positions, and get_track with self.predict set *)

(* the estimates the regression of _predict_coordinate may return; which one it
   returns is left open (sklearn's GaussianProcess is fitted by the library) *)
Estimates == {0, 1, 2}

(* lines 219-224: the result of _predict_coordinate: an estimate and its mse *)
Regression(v, seg) == [x |-> v, mse |-> 1, hist |-> seg, fit |-> TRUE]

(* lines 215-217: the stored position of row r, with mse = pos * 0 *)
StoredPosition(tr, r, seg) == [x |-> tr[r].x, mse |-> 0, hist |-> seg, fit |-> FALSE]

(* lines 200-201: pos0 = self.track.xs(t0)[coordinates], mse0 = pos0.copy() * 0. *)
RECURSIVE RawPositionsFrom(_, _, _)
RawPositionsFrom(tr, I0, n) ==
    IF n > Len(I0) THEN <<>>
    ELSE <<StoredPosition(tr, I0[n], <<>>)>> \o RawPositionsFrom(tr, I0, n + 1)

(* line 203: np.where(self.times == t1) < 3.  np.where returns a tuple, and the test
   compares that tuple with the integer 3: under Python 2 an int is ordered before
   a tuple whatever their values, so the test is False for every t1; under
   Python 3 the comparison raises TypeError (action PredictPositionsRaises) *)
FewTimes(tr, t1) == FALSE

(* lines 207 and 236-237: self.get_segment(lbl).loc[:t0], the rows whose index
   level 'label' is lbl, up to time t0 *)
SegmentUpTo(tr, lbl, t0) ==
    Ascending({k \in 1..Len(tr) : tr[k].label = lbl /\ tr[k].t <= t0})

(* lines 210-213: the segment is empty, or has no row at t0 *)
Skipped(tr, seg, t0) == seg = <<>> \/ tr[seg[Len(seg)]].t # t0

(* line 215: times.size < 3 *)
TooShort(seg) == Len(seg) < 3

(* lines 214-224: the position and mse predict_positions stores for a segment *)
Predicted(tr, seg, v) ==
    IF TooShort(seg) THEN StoredPosition(tr, seg[Len(seg)], seg) ELSE Regression(v, seg)

(* lines 225-226: pos0.ix[lbl] = pos; mse0.ix[lbl] = mse *)
PlaceOfLabel(tr, I0, lbl) == CHOOSE n \in 1..Len(I0) : tr[I0[n]].label = lbl

(* lines 205-226: the loop over self.labels; gp[lbl] is what the regression
   returns for label lbl *)
RECURSIVE PredictLoop(_, _, _, _, _, _, _)
PredictLoop(tr, pos0, I0, lbls, t0, gp, i) ==
    IF i > Len(lbls) THEN pos0
    ELSE IF Skipped(tr, SegmentUpTo(tr, lbls[i], t0), t0)
         THEN PredictLoop(tr, pos0, I0, lbls, t0, gp, i + 1)
    ELSE PredictLoop(tr,
                     [pos0 EXCEPT ![PlaceOfLabel(tr, I0, lbls[i])] =
                         Predicted(tr, SegmentUpTo(tr, lbls[i], t0), gp[lbls[i]])],
                     I0, lbls, t0, gp, i + 1)

(* predict_positions(t0, t1), when line 203 does not raise *)
predict_positions(tr, t0, t1, gp) ==
    IF FewTimes(tr, t1) THEN RawPositionsFrom(tr, RowsAt(tr, t0), 1)
    ELSE PredictLoop(tr, RawPositionsFrom(tr, RowsAt(tr, t0), 1), RowsAt(tr, t0),
                     labels(tr), t0, gp, 1)

(* lines 171-176: the table the cost matrix is built from: pos0 for the rows of t0 *)
RECURSIVE WithPositionsFrom(_, _, _, _)
WithPositionsFrom(tr, I0, pos0, k) ==
    IF k > Len(tr) THEN <<>>
    ELSE <<IF \E n \in 1..Len(I0) : I0[n] = k
           THEN [tr[k] EXCEPT !.x = pos0[CHOOSE n \in 1..Len(I0) : I0[n] = k].x]
           ELSE tr[k]>>
         \o WithPositionsFrom(tr, I0, pos0, k + 1)

(* the outcomes lapjv may have on the pair (t0, t1) when pos0 is predicted *)
PredictedOutcomes(tr, t0, t1, pos0) ==
    OutLinks(WithPositionsFrom(tr, RowsAt(tr, t0), pos0, 1),
             RowsAt(tr, t0), RowsAt(tr, t1), Gate(t0, t1))

(* position_track(t0, t1) with self.predict set, on a solver result or failure *)
PositionTrackPredicted ==
    /\ pc = "linking"
    /\ predict = "true"
    /\ step <= NumSteps
    /\ \E pos0 \in { predict_positions(track, times(track)[step],
                                        times(track)[step + 1], gp) :
                      gp \in [RawLabels -> Estimates] } :
         \E o \in PredictedOutcomes(track, times(track)[step], times(track)[step + 1],
                                    pos0)
                   \cup {Infeasible} :
            LET st == position_track(track, [col |-> new_label, log |-> births],
                                     times(track)[step], times(track)[step + 1], o, step)
            IN /\ new_label' = st.col
               /\ births' = st.log
               /\ choices' = Append(choices, o)
               /\ arg' = Append(arg, [t0 |-> times(track)[step],
                                      t1 |-> times(track)[step + 1],
                                      pos0 |-> pos0])
    /\ prev' = [track |-> track, new_label |-> new_label]
    /\ step' = step + 1
    /\ UNCHANGED <<track, pc, orig, predict>>

(* line 203 under Python 3: the first call of predict_positions raises TypeError,
   which nothing catches: get_track ends there, the new_label column in place *)
PredictPositionsRaises ==
    /\ pc = "linking"
    /\ predict = "true"
    /\ step = 1
    /\ step <= NumSteps
    /\ pc' = "raised"
    /\ prev' = [track |-> track, new_label |-> new_label]
    /\ UNCHANGED <<track, new_label, step, choices, births, orig, arg, predict>>

(* tables of n rows, one detection at each of the times t0, t0 + 1, ... *)
ChainTables(n, t0) ==
    { [k \in 1..n |-> [t |-> t0 + k - 1, label |-> l[k], x |-> p[k]]] :
        l \in [1..n -> RawLabels], p \in [1..n -> Positions] }

InitPredict ==
    /\ track \in Tables(0) \cup ChainTables(MaxRows + 1, 0)
    /\ new_label = <<>>
    /\ pc = "start"
    /\ step = 0
    /\ choices = <<>>
    /\ births = <<>>
    /\ prev = [track |-> <<>>, new_label |-> <<>>]
    /\ orig = track
    /\ arg = 0
    /\ predict \in {"unset", "true"}

(* get_track() and get_track(predict=True) *)
GetTrackBeginPredict == GetTrackCall({"none", "true"})

NextPredict ==
    \/ GetTrackBeginPredict
    \/ GetTrackNoPredict
    \/ PositionTrackPredicted
    \/ PredictPositionsRaises
    \/ GetTrackCommit

SpecPredict == InitPredict /\ [][NextPredict]_vars

(* get_track on every table, whatever self.predict is and whatever the call gives
   for it.  get_track is one sequential loop: the step on the next pair is taken,
   whatever the solver or predict_positions does on it, and the commit follows
   the last step *)
InitLive ==
    /\ track \in Tables(0)
    /\ new_label = <<>>
    /\ pc = "start"
    /\ step = 0
    /\ choices = <<>>
    /\ births = <<>>
    /\ prev = [track |-> <<>>, new_label |-> <<>>]
    /\ orig = track
    /\ arg = 0
    /\ predict \in {"unset", "false", "true"}

(* get_track(), get_track(predict=False) and get_track(predict=True) *)
GetTrackBeginAny == GetTrackCall({"none", "false", "true"})

NextLive ==
    \/ GetTrackBeginAny
    \/ GetTrackNoPredict
    \/ PositionTrackLinked
    \/ PositionTrackInfeasible
    \/ PositionTrackPredicted
    \/ PredictPositionsRaises
    \/ GetTrackCommit

SpecLive ==
    /\ InitLive
    /\ [][NextLive]_vars
    /\ WF_vars(\/ PositionTrackLinked
               \/ PositionTrackInfeasible
               \/ PositionTrackPredicted
               \/ PredictPositionsRaises)
    /\ WF_vars(GetTrackCommit)

-----------------------------------------------------------------------------
(* Properties of get_track and position_track *)

(* the working labels: the new_label column during a run, the index after it *)
Working == IF pc = "linking" THEN new_label ELSE LabelColumn(track)

(* the number of time pairs position_track has been run on *)
StepsDone ==
    IF pc = "linking" THEN step - 1
    ELSE IF pc \in {"linked", "relinked"} THEN NumSteps
    ELSE 0

FrameRows(s) == RowsAt(track, times(track)[s])

BirthLabels == {births[e].label : e \in 1..Len(births)}

(* C1: during and after get_track every row carries one (integer) label, no row
   is added or lost, and no two detections of the same time carry the same label *)
C1_OneLabelPerDetectionUniqueInTime ==
    pc \in {"linking", "linked"} =>
        /\ Len(Working) = Len(track)
        /\ pc = "linked" => Len(track) = Len(prev.track)
        /\ \A a \in 1..Len(track) : Working[a] \in Nat
        /\ \A a, b \in 1..Len(track) :
              (a # b /\ track[a].t = track[b].t) => Working[a] # Working[b]

(* a finished run with a step that both linked a detection and gave birth to one *)
C1_Witness ==
    /\ pc = "linked"
    /\ \E s \in 1..NumSteps :
          /\ choices[s] # Infeasible
          /\ \E n \in 1..Len(choices[s]) : choices[s][n] < Len(FrameRows(s))
          /\ \E e \in 1..Len(births) : births[e].step = s

(* C2: every label allocated for a birth is strictly greater than every label of the
   working column at the moment of allocation, and no two births of one run are
   given the same label *)
C2_BirthLabelsFreshAndDistinct ==
    /\ \A e \in 1..Len(births) :
          \A j \in 1..Len(births[e].col) : births[e].label > births[e].col[j]
    /\ \A e, f \in 1..Len(births) : e # f => births[e].label # births[f].label

(* two births in different steps of one run, the first allocated while a later
   frame still held a raw label above every label of the processed frames *)
C2_Witness ==
    /\ pc = "linked"
    /\ \E e, f \in 1..Len(births) :
          /\ births[e].step < births[f].step
          /\ \E j \in 1..Len(track) :
                /\ track[j].t > times(track)[births[e].step + 1]
                /\ births[e].col[j] = ColMax(births[e].col)
                /\ \A i \in 1..Len(track) :
                      track[i].t <= times(track)[births[e].step + 1]
                          => births[e].col[i] < births[e].col[j]

(* a t1 detection farther than max_disp * (t1 - t0) from every t0 detection *)
FarFromAll(r1, s) ==
    \A n \in 1..Len(FrameRows(s)) :
        Abs(track[r1].x - track[FrameRows(s)[n]].x)
            > max_disp * (times(track)[s + 1] - times(track)[s])

(* C3: after position_track(t0, t1), a t1 detection farther than
   max_disp * (t1 - t0) from every t0 detection carries a label allocated for it
   in that step, and not the label of any t0 detection *)
C3_FarDetectionIsBirth ==
    \A s \in 1..StepsDone :
        \A n1 \in 1..Len(FrameRows(s + 1)) :
            LET r1 == FrameRows(s + 1)[n1]
            IN FarFromAll(r1, s) =>
                 /\ \E e \in 1..Len(births) :
                       /\ births[e].step = s
                       /\ births[e].row = r1
                       /\ births[e].label = Working[r1]
                 /\ \A n0 \in 1..Len(FrameRows(s)) :
                       Working[FrameRows(s)[n0]] # Working[r1]

(* a solved step with one far detection and one linked one *)
C3_Witness ==
    /\ pc = "linking"
    /\ \E s \in 1..StepsDone :
          /\ choices[s] # Infeasible
          /\ \E n1 \in 1..Len(FrameRows(s + 1)) : FarFromAll(FrameRows(s + 1)[n1], s)
          /\ \E n \in 1..Len(choices[s]) : choices[s][n] < Len(FrameRows(s))

-----------------------------------------------------------------------------
(* Two-frame tables with as many detections in each frame *)

TwoFrames ==
    /\ Len(times(track)) = 2
    /\ Len(FrameRows(1)) = Len(FrameRows(2))

(* the one-to-one correspondences (as out_links) whose paired distances are all
   within max_disp *)
Correspondences ==
    { o \in OutLinks(track, FrameRows(1), FrameRows(2), max_disp) :
        \A n \in 1..Len(o) : o[n] < Len(FrameRows(1)) }

(* each frame-1 detection carries the label of its correspondent, no birth *)
Recovered(o) ==
    /\ births = <<>>
    /\ \A n \in 1..Len(o) :
          track[FrameRows(2)[n]].label = track[FrameRows(1)[o[n] + 1]].label

TwoFrameGate == Gate(times(track)[1], times(track)[2])

SolverWasOptimal ==
    /\ choices[1] # Infeasible
    /\ IsOptimal(track, FrameRows(1), FrameRows(2), TwoFrameGate, choices[1])

UniqueOptimum(o) ==
    \A q \in OutLinks(track, FrameRows(1), FrameRows(2), TwoFrameGate) :
        q # o => Cost(track, FrameRows(1), FrameRows(2), TwoFrameGate, o)
                   < Cost(track, FrameRows(1), FrameRows(2), TwoFrameGate, q)

(* C4 as stated: whatever admissible one-to-one correspondence within max_disp is
   taken, an optimal solver makes get_track recover it *)
C4_AnyAdmissibleCorrespondenceRecovered ==
    (pc = "linked" /\ TwoFrames /\ SolverWasOptimal) =>
        \A o \in Correspondences : Recovered(o)

(* C4 amended: the correspondence that is the one minimum-cost solution of the
   assignment problem is recovered, with no birth *)
C4_UniqueOptimalCorrespondenceRecovered ==
    (pc = "linked" /\ TwoFrames /\ SolverWasOptimal) =>
        \A o \in Correspondences : UniqueOptimum(o) => Recovered(o)

(* two detections per frame, the optimum crossing the row order *)
C4_Witness ==
    /\ pc = "linked"
    /\ TwoFrames
    /\ SolverWasOptimal
    /\ Len(FrameRows(1)) = 2
    /\ <<1, 0>> \in Correspondences
    /\ UniqueOptimum(<<1, 0>>)
    /\ track[FrameRows(1)[1]].label # track[FrameRows(1)[2]].label

-----------------------------------------------------------------------------
(* every step of the run was solved, with a minimum-cost solution *)
AllStepsOptimal ==
    \A s \in 1..NumSteps :
        /\ choices[s] # Infeasible
        /\ IsOptimal(track, FrameRows(s), FrameRows(s + 1),
                     Gate(times(track)[s], times(track)[s + 1]), choices[s])

(* C5: a second get_track on the table a first get_track produced, with the same
   (minimum-cost) solver outcomes, leaves every label unchanged *)
C5_SecondRunKeepsLabels ==
    (pc = "relinked" /\ AllStepsOptimal) => track = prev.track

(* C6: when the solver fails on (t0, t1), every detection of t1 is given a label
   allocated for it in that step, above all labels in use, the labels are
   pairwise distinct and none is a t0 label, and the run goes on *)
C6_InfeasibleStepRelabelsAll ==
    \A s \in 1..StepsDone :
        choices[s] = Infeasible =>
            /\ Len(choices) >= s
            /\ \A n1 \in 1..Len(FrameRows(s + 1)) :
                  LET r1 == FrameRows(s + 1)[n1]
                  IN /\ \E e \in 1..Len(births) :
                           /\ births[e].step = s
                           /\ births[e].row = r1
                           /\ births[e].label = Working[r1]
                           /\ \A j \in 1..Len(births[e].col) :
                                 births[e].label > births[e].col[j]
                     /\ \A n0 \in 1..Len(FrameRows(s)) :
                           Working[FrameRows(s)[n0]] # Working[r1]
                     /\ \A m1 \in 1..Len(FrameRows(s + 1)) :
                           m1 # n1 => Working[FrameRows(s + 1)[m1]] # Working[r1]

(* a failed step on a frame of two detections *)
C6_Witness ==
    /\ pc = "linking"
    /\ \E s \in 1..StepsDone :
          /\ choices[s] = Infeasible
          /\ Len(FrameRows(s + 1)) = 2

-----------------------------------------------------------------------------
(* Properties of the segment utilities *)

LabelCount(tr, lbl) == Cardinality({k \in 1..Len(tr) : tr[k].label = lbl})

RECURSIVE LongRows(_, _, _)
LongRows(tr, m, k) ==
    IF k > Len(tr) THEN <<>>
    ELSE IF LabelCount(tr, tr[k].label) >= m THEN <<tr[k]>> \o LongRows(tr, m, k + 1)
    ELSE LongRows(tr, m, k + 1)

(* C7: remove_shorts(min_length) deletes the rows of the labels with fewer than
   min_length detections and nothing else: what is left is the rows of the labels
   with at least min_length detections, unchanged and in their order *)
C7_RemoveShortsDropsExactlyShortLabels ==
    pc = "shortened" => track = LongRows(orig, arg, 1)

(* a label of one detection is dropped while a label of two is kept *)
C7_Witness ==
    /\ pc = "shortened"
    /\ arg = 2
    /\ \E k \in 1..Len(orig) : LabelCount(orig, orig[k].label) = 1
    /\ \E k \in 1..Len(orig) : LabelCount(orig, orig[k].label) = 2
    /\ Len(track) = 2

(* C8: reverse_track applied twice restores times, labels, coordinates and row order *)
C8_ReverseTwiceRestores ==
    (pc = "reversed" /\ arg = 2) => track = orig

-----------------------------------------------------------------------------
(* Properties of close_merge_split *)

(* the rows of the n-th segment handed to the cost matrix *)
SegmentRows(n) == {k \in 1..Len(orig) : orig[k].label = labels(orig)[n]}

(* C9: when the solver links the end of segment a to the start of segment b, all
   detections of a and of b carry one and the same label after the pass *)
C9_LinkedSegmentsShareLabel ==
    pc = "closed" =>
        \A n \in 1..Len(arg) :
            arg[n] < Len(arg) =>
                \A j, k \in SegmentRows(arg[n] + 1) \cup SegmentRows(n) :
                    track[j].label = track[k].label

(* C10: after the pass, two detections of one label that follow each other in that
   label and come from different input segments are at most window_gap apart *)
C10_NoLabelGapWiderThanWindow ==
    pc = "closed" =>
        \A j, k \in 1..Len(track) :
            ( /\ j < k
              /\ track[j].label = track[k].label
              /\ orig[j].label # orig[k].label
              /\ \A m \in (j + 1)..(k - 1) : track[m].label # track[j].label )
            => track[k].t - track[j].t <= window_gap

(* C11: close_merge_split changes nothing but labels: the table has the same number
   of rows after the pass as before it, and every row keeps its time, its
   coordinate and its intensity, whether the solver returns a solution or raises *)
C11_OnlyLabelsChange ==
    pc \in {"closed", "failed"} =>
        /\ Len(track) = Len(orig)
        /\ \A k \in 1..Len(orig) :
             /\ track[k].t = orig[k].t
             /\ track[k].x = orig[k].x
             /\ track[k].I = orig[k].I

(* a pass that relabelled a row of a table whose labels first appear out of
   ascending order and whose intensities differ from row to row *)
C11_Witness ==
    /\ pc = "closed"
    /\ \E k \in 1..Len(orig) : track[k].label # orig[k].label
    /\ \E j, k \in 1..Len(orig) : j < k /\ orig[j].label > orig[k].label
    /\ \E j, k \in 1..Len(orig) : orig[j].I # orig[k].I

(* the segments the solver gave no partner: their index is that of a birth *)
BornSegments == {n \in 1..Len(arg) : arg[n] >= Len(arg)}

(* C14: a segment whose solver partner index is at or beyond the number of
   segments ends with a label that no row carried before the pass and that no
   other such segment is given *)
C14_BornSegmentsGetOwnFreshLabel ==
    pc = "closed" =>
        \A n \in BornSegments : \A k \in SegmentRows(n) :
            /\ track[k].label > ColMax(LabelColumn(orig))
            /\ \A m \in BornSegments \ {n} : \A j \in SegmentRows(m) :
                 track[j].label # track[k].label

(* C17: the n-th entry of the mapping from old to new labels stands for the label
   of the n-th segment handed to the cost matrix, so that the rows of segment n,
   and no others, end with the label the solver result for segment n yields *)
C17_MappingEntryIsSegment ==
    pc = "closed" =>
        \A n \in 1..Len(arg) :
            /\ np_unique(LabelColumn(orig))[n] = labels(orig)[n]
            /\ \A k \in SegmentRows(n) :
                 track[k].label
                     = MapLoop(np_unique(LabelColumn(orig)), arg, Len(arg), 1)[n]

(* the first segment of the chain of solver links that ends in segment n *)
RECURSIVE ChainStart(_)
ChainStart(n) == IF arg[n] >= Len(arg) THEN n ELSE ChainStart(arg[n] + 1)

(* C18: two segments that no chain of solver links joins end with different
   labels, and no two rows of one time end with the same label *)
C18_OnlyLinkedSegmentsMerge ==
    pc = "closed" =>
        /\ \A n, m \in 1..Len(arg) :
             ChainStart(n) # ChainStart(m) =>
                 \A j \in SegmentRows(n), k \in SegmentRows(m) :
                     track[j].label # track[k].label
        /\ UniqueTimeLabel(track)

-----------------------------------------------------------------------------
(* Properties of a whole get_track run *)

(* the number of the frame row k belongs to *)
FrameOf(k) == CHOOSE s \in 1..Len(times(track)) : times(track)[s] = track[k].t

(* the place of row k in its frame *)
PlaceOf(k) == CHOOSE n \in 1..Len(FrameRows(FrameOf(k))) : FrameRows(FrameOf(k))[n] = k

(* the row of the previous frame the solver matched row k to, 0 if there is none *)
LinkedFrom(k) ==
    IF FrameOf(k) = 1 THEN 0
    ELSE IF choices[FrameOf(k) - 1] = Infeasible THEN 0
    ELSE IF IsBirth(choices[FrameOf(k) - 1][PlaceOf(k)], Len(FrameRows(FrameOf(k) - 1)))
         THEN 0
    ELSE FrameRows(FrameOf(k) - 1)[choices[FrameOf(k) - 1][PlaceOf(k)] + 1]

(* the first detection d_0 of the chain of solver matches that ends in row k *)
RECURSIVE ChainHead(_)
ChainHead(k) == IF LinkedFrom(k) = 0 THEN k ELSE ChainHead(LinkedFrom(k))

(* the label d_0 held: its raw label at the first time, its birth label after it *)
HeldLabel(k) ==
    IF FrameOf(k) = 1 THEN orig[k].label
    ELSE births[CHOOSE e \in 1..Len(births) : births[e].row = k].label

(* C12: after get_track every detection carries the label the head of its chain of
   solver matches held: the raw label of the head when the head is at the first
   time, the birth label of the head otherwise *)
C12_ChainCarriesLabelOfItsHead ==
    pc = "linked" =>
        \A k \in 1..Len(track) : track[k].label = HeldLabel(ChainHead(k))

(* a chain of three detections whose raw labels differ from the label of its head *)
C12_Witness ==
    /\ pc = "linked"
    /\ \E k \in 1..Len(track) :
         /\ LinkedFrom(k) # 0
         /\ LinkedFrom(LinkedFrom(k)) # 0
         /\ orig[LinkedFrom(k)].label # orig[ChainHead(k)].label
         /\ orig[k].label # orig[ChainHead(k)].label

(* the pairs of consecutive observed times, in increasing order *)
ObservedTimes == Ascending({track[k].t : k \in 1..Len(track)})

ConsecutivePairs ==
    [s \in 1..(Len(ObservedTimes) - 1) |->
        [t0 |-> ObservedTimes[s], t1 |-> ObservedTimes[s + 1]]]

(* the pairs of times position_track was called on, in the order of the calls *)
CalledPairs == [e \in 1..Len(arg) |-> [t0 |-> arg[e].t0, t1 |-> arg[e].t1]]

(* C13: get_track runs position_track on the pairs of consecutive observed times,
   once each and in increasing order of time, whether or not the solver fails on a
   pair; and every run that has begun reaches the final commit, all pairs done *)
C13_EveryPairOnceInOrderToCommit ==
    (pc = "linking") ~>
        (pc = "linked" /\ CalledPairs = ConsecutivePairs /\ Len(choices) = Len(arg))

(* C19: a step position_track(t0, t1), solved or infeasible, leaves the table's
   times and coordinates as they were and changes the working label of no row
   other than those of time t1 *)
C19_StepWritesOnlyLabelsAtT1 ==
    (pc = "linking" /\ step > 1) =>
        /\ track = prev.track
        /\ Len(new_label) = Len(prev.new_label)
        /\ \A k \in 1..Len(track) :
             track[k].t # times(track)[step] => new_label[k] = prev.new_label[k]

(* a solved step and then an infeasible one, each of which changed a label *)
C19_Witness ==
    /\ pc = "linking"
    /\ step = 3
    /\ choices[1] # Infeasible
    /\ choices[2] = Infeasible
    /\ new_label # prev.new_label
    /\ \E k \in 1..Len(track) :
         track[k].t = times(track)[2] /\ new_label[k] # track[k].label

-----------------------------------------------------------------------------
(* Properties of predict_positions *)

(* the row of the n-th detection of time t0 *)
DetectionAt(t0, n) == RowsAt(track, t0)[n]

(* the rows up to time t0 whose working label is that of row r *)
TrackHistory(r, t0) ==
    {k \in 1..Len(track) : track[k].t <= t0 /\ Working[k] = Working[r]}

(* the rows up to time t0 whose index label, before the run, is that of row r *)
IndexHistory(r, t0) ==
    {k \in 1..Len(orig) : orig[k].t <= t0 /\ orig[k].label = orig[r].label}

(* C15: with prediction enabled, the history the position of a detection of t0 is
   predicted from is the set of detections up to t0 that carry its working label *)
C15_HistoryIsThatOfWorkingLabel ==
    pc \in {"linking", "linked"} =>
        \A e \in 1..Len(arg) : \A n \in 1..Len(arg[e].pos0) :
            Range(arg[e].pos0[n].hist)
                = TrackHistory(DetectionAt(arg[e].t0, n), arg[e].t0)

(* C16: every call of predict_positions returns; it returns the stored position
   with zero uncertainty and without regression for every detection when t0 is
   one of the first two observed times, and for a detection whose label has fewer
   than 3 rows up to t0; it attempts a regression in no other case than when
   neither holds *)
C16_PredictFallsBackOnShortHistory ==
    /\ pc # "raised"
    /\ pc \in {"linking", "linked"} =>
          \A e \in 1..Len(arg) : \A n \in 1..Len(arg[e].pos0) :
              /\ ( \/ arg[e].t0 \in {ObservedTimes[s] : s \in {1, 2} \cap DOMAIN ObservedTimes}
                   \/ Cardinality(IndexHistory(DetectionAt(arg[e].t0, n), arg[e].t0)) < 3 )
                 => /\ arg[e].pos0[n].x = track[DetectionAt(arg[e].t0, n)].x
                    /\ arg[e].pos0[n].mse = 0
                    /\ ~arg[e].pos0[n].fit
              /\ arg[e].pos0[n].fit
                 => /\ arg[e].t0 \notin {ObservedTimes[s] : s \in {1, 2} \cap DOMAIN ObservedTimes}
                    /\ Cardinality(IndexHistory(DetectionAt(arg[e].t0, n), arg[e].t0)) >= 3

====
